---- MODULE Spec2Model ----
(***************************************************************************)
(* The price-target provider adapters (Benzinga and FMP): the query        *)
(* schemas with their validators, the data schemas with theirs, and the    *)
(* fetcher's three steps transform_query, aextract_data, transform_data,   *)
(* followed through one request.                                           *)
(*                                                                         *)
(* Python values are tagged records [t |-> type, v |-> payload]:           *)
(*   none, str (v a TLA+ string), text (v a sequence of characters),       *)
(*   int, date (v = days since 1970-01-01), datetime (v = seconds since    *)
(*   the epoch, UTC), iso (v = seconds, the text "%Y-%m-%dT%H:%M:%S.%fZ"   *)
(*   of that instant), isodate (v = days, the text "%Y-%m-%d" of that      *)
(*   day), list (v a sequence), raise (v the exception's name).            *)
(* A dict is a function from its keys to values.                           *)
(***************************************************************************)
EXTENDS Integers, Sequences, FiniteSets, TLC

VARIABLES
    provider,   \* which fetcher serves the request: "benzinga" or "fmp"
    params,     \* the raw parameter bag handed to transform_query
    pc,         \* position of the request in the fetcher's call chain
    query,      \* the QueryParams object (mutable, as in the code)
    query0,     \* history: the QueryParams object as transform_query built it
    urls,       \* the request URLs built by aextract_data
    http,       \* per URL: the call is pending, has failed, or its body
    sent,       \* history: the log of HTTP calls issued, in order
    data,       \* what aextract_data returned (the raw records)
    data0,      \* history: the raw records as transform_data received them
    results,    \* what transform_data returned
    error,      \* the exception that ended the request, or "none"
    calls,      \* history: how many times aextract_data was called
    fd          \* find_decorator: its arguments, its locals and its result

vars == <<provider, params, pc, query, query0, urls, http, sent, data, data0,
          results, error, calls, fd>>

----------------------------------------------------------------------------
(* Bounds *)

MaxSymLen == 3      \* longest symbol text, in characters
MaxDay == 2         \* latest calendar day, in days since the epoch
MaxRatings == 2     \* most raw records in one Benzinga response
MaxCalls == 2       \* most calls of aextract_data on one query object
MaxListLen == 2     \* longest list given for fields, firm_ids, analyst_ids
MaxFuncs == 2       \* most functions in a router file

----------------------------------------------------------------------------
(* Values *)

None == [t |-> "none"]
StrV(s) == [t |-> "str", v |-> s]
TextV(s) == [t |-> "text", v |-> s]
IntV(n) == [t |-> "int", v |-> n]
DateV(d) == [t |-> "date", v |-> d]
DateTimeV(s) == [t |-> "datetime", v |-> s]
IsoV(s) == [t |-> "iso", v |-> s]
ListV(s) == [t |-> "list", v |-> s]

\* Python truthiness of a value: None, "", 0, [] are false.
Truthy(x) ==
    CASE x.t = "none" -> FALSE
      [] x.t = "str" -> x.v # ""
      [] x.t = "text" -> x.v # <<>>
      [] x.t = "int" -> x.v # 0
      [] x.t = "list" -> x.v # <<>>
      [] OTHER -> TRUE

SecondsPerDay == 24 * 60 * 60

\* datetime.timestamp() of a datetime whose tzinfo is UTC.
Timestamp(dt) == dt.v

\* datetime.combine(d, time(), tzinfo=timezone.utc)
CombineMidnightUTC(d) == DateTimeV(d.v * SecondsPerDay)

\* datetime.fromtimestamp(v, UTC)
FromTimestampUTC(n) == DateTimeV(n)

\* dt.date() and dt.time() (seconds into the day)
DateOf(dt) == DateV(dt.v \div SecondsPerDay)
TimeOf(dt) == dt.v % SecondsPerDay

----------------------------------------------------------------------------
(* Text: str.split(",") and ",".join *)

RECURSIVE SplitFrom(_, _, _)
\* s.split(sep), continued: cur is the part being read.
SplitFrom(s, sep, cur) ==
    IF s = <<>> THEN <<cur>>
    ELSE IF Head(s) = sep THEN <<cur>> \o SplitFrom(Tail(s), sep, <<>>)
    ELSE SplitFrom(Tail(s), sep, Append(cur, Head(s)))

Split(s, sep) == SplitFrom(s, sep, <<>>)

RECURSIVE Texts(_)
Texts(n) ==
    IF n = 0 THEN {<<>>}
    ELSE Texts(n - 1) \cup
         {Append(s, c) : s \in {x \in Texts(n - 1) : Len(x) = n - 1},
                         c \in {"A", "B", ","}}

SymbolTexts == Texts(MaxSymLen)

RECURSIVE SeqsUpTo(_, _)
SeqsUpTo(S, n) ==
    IF n = 0 THEN {<<>>}
    ELSE SeqsUpTo(S, n - 1) \cup
         {Append(s, x) : s \in {y \in SeqsUpTo(S, n - 1) : Len(y) = n - 1},
                         x \in S}

RECURSIVE Join(_, _)
\* sep.join(parts): parts is a sequence of character sequences.
Join(parts, sep) ==
    IF parts = <<>> THEN <<>>
    ELSE IF Len(parts) = 1 THEN parts[1]
    ELSE parts[1] \o <<sep>> \o Join(Tail(parts), sep)

----------------------------------------------------------------------------
(* Benzinga query schema *)

\* COVERAGE_DICT with the two coverage actions cut to their first word.
COVERAGE_DICT_ShortNames ==
    [c \in {"downgrades", "maintains", "reinstates", "reiterates", "upgrades",
            "assumes", "initiates", "terminates", "removes", "suspends",
            "firm_dissolved"} |->
        CASE c = "downgrades" -> "Downgrades"
          [] c = "maintains" -> "Maintains"
          [] c = "reinstates" -> "Reinstates"
          [] c = "reiterates" -> "Reiterates"
          [] c = "upgrades" -> "Upgrades"
          [] c = "assumes" -> "Assumes"
          [] c = "initiates" -> "Initiates"
          [] c = "terminates" -> "Terminates"
          [] c = "removes" -> "Removes"
          [] c = "suspends" -> "Suspends"
          [] c = "firm_dissolved" -> "Firm Dissolved"]

COVERAGE_DICT ==
    [c \in {"downgrades", "maintains", "reinstates", "reiterates", "upgrades",
            "assumes", "initiates", "terminates", "removes", "suspends",
            "firm_dissolved"} |->
        CASE c = "downgrades" -> "Downgrades"
          [] c = "maintains" -> "Maintains"
          [] c = "reinstates" -> "Reinstates"
          [] c = "reiterates" -> "Reiterates"
          [] c = "upgrades" -> "Upgrades"
          [] c = "assumes" -> "Assumes"
          [] c = "initiates" -> "Initiates Coverage On"
          [] c = "terminates" -> "Terminates Coverage On"
          [] c = "removes" -> "Removes"
          [] c = "suspends" -> "Suspends"
          [] c = "firm_dissolved" -> "Firm Dissolved"]

\* The Literal of the query's action field.
QueryActionLiteral ==
    {"downgrades", "maintains", "reinstates", "reiterates", "upgrades",
     "assumes", "initiates", "terminates", "removes", "suspends",
     "firm_dissolved"}

\* The Literal of the data record's action field.
DataActionLiteral ==
    {"Downgrades", "Maintains", "Reinstates", "Reiterates", "Upgrades",
     "Assumes", "Initiates Coverage On", "Terminates Coverage On", "Removes",
     "Suspends", "Firm Dissolved"}

\* action: Union[None, Literal[...]]: does the supplied value validate?
ActionAccepts(v) == v.t = "none" \/ (v.t = "str" /\ v.v \in QueryActionLiteral)

\* An exception raised inside a validator.
Raise(name) == [t |-> "raise", v |-> name]

\* convert_action, mode="after"
convert_action(v) ==
    IF Truthy(v)
    THEN IF v.v \in DOMAIN COVERAGE_DICT
         THEN StrV(COVERAGE_DICT[v.v])
         ELSE Raise("KeyError")
    ELSE None

\* updated: Optional[Union[dateType, int]]: a date or an int is taken as it
\* is; a datetime is no int and is a date only when its time is 00:00:00.
UpdatedAccepts(v) ==
    \/ v.t \in {"none", "date", "int"}
    \/ v.t = "datetime" /\ TimeOf(v) = 0

UpdatedCoerce(v) == IF v.t = "datetime" THEN DateOf(v) ELSE v

\* date_validate, mode="after"
date_validate(v) ==
    IF v.t = "datetime" THEN IntV(Timestamp(v))
    ELSE IF v.t = "date" THEN IntV(Timestamp(CombineMidnightUTC(v)))
    ELSE None

\* What ",".join(v) iterates over: the elements of a list, the characters of
\* a str.
Parts(v) ==
    IF v.t = "list" THEN [i \in 1 .. Len(v.v) |-> v.v[i].v]
    ELSE [i \in 1 .. Len(v.v) |-> <<v.v[i]>>]

\* convert_list without its isinstance(v, str) test.
convert_list_NoStrTest(v) ==
    IF Truthy(v) THEN TextV(Join(Parts(v), ",")) ELSE None

\* convert_list, mode="before"
convert_list(v) ==
    IF v.t = "text" THEN v
    ELSE IF Truthy(v) THEN TextV(Join(Parts(v), ",")) ELSE None

\* The schema's fields without a default, as the standard model declares them.
RequiredPresent(p) == p.has_required

\* Type validation of the bag, field by field, ignoring the action Literal.
BenzingaValidAnyAction(p) ==
    RequiredPresent(p) /\ UpdatedAccepts(p.updated)

\* Type validation of the bag, field by field.
BenzingaValid(p) ==
    RequiredPresent(p) /\ ActionAccepts(p.action) /\ UpdatedAccepts(p.updated)

\* BenzingaPriceTargetQueryParams(**params), once the types are validated:
\* the "after" validators applied.
BenzingaQuery(p) ==
    [symbol |-> p.symbol,
     action |-> convert_action(p.action),
     updated |-> date_validate(UpdatedCoerce(p.updated)),
     analyst_ids |-> convert_list(p.analyst_ids),
     firm_ids |-> convert_list(p.firm_ids),
     fields |-> convert_list(p.fields)]

----------------------------------------------------------------------------
(* FMP query schema *)

FMPValid(p) == RequiredPresent(p)

FMPQuery(p) == [symbol |-> p.symbol, with_grade |-> p.with_grade]

----------------------------------------------------------------------------
(* The parameter bags a request may carry *)

Days == 0 .. MaxDay

\* Instants: midnight of each day, and one second and one hour past it.
Instants == {d * SecondsPerDay + o : d \in Days, o \in {0, 1, 3600}}

ActionInputs ==
    {None} \cup {StrV(c) : c \in QueryActionLiteral}
           \cup {StrV("buy"), StrV("Upgrades"), StrV("")}

UpdatedInputs ==
    {None} \cup {DateV(d) : d \in Days}
           \cup {DateTimeV(s) : s \in Instants}
           \cup {IntV(s) : s \in Instants}

\* What fields, firm_ids and analyst_ids may be given as: nothing, a str, or
\* a list of str.
ListInputs ==
    {None}
    \cup {TextV(s) : s \in {<<>>, <<"A">>, <<"A", ",", "B">>}}
    \cup {ListV(l) : l \in SeqsUpTo({TextV(<<"A">>), TextV(<<"B">>)}, MaxListLen)}
    \cup {ListV(<<TextV(<<>>)>>), ListV(<<TextV(<<"A", "B">>), TextV(<<>>)>>)}

BenzingaDefaults ==
    [symbol |-> TextV(<<"A">>), action |-> None, updated |-> None,
     analyst_ids |-> None, firm_ids |-> None, fields |-> None,
     has_required |-> TRUE]

BenzingaBags ==
    {[BenzingaDefaults EXCEPT !.action = a] : a \in ActionInputs}
    \cup {[BenzingaDefaults EXCEPT !.updated = u] : u \in UpdatedInputs}
    \cup {[BenzingaDefaults EXCEPT !.fields = l] : l \in ListInputs}
    \cup {[BenzingaDefaults EXCEPT !.firm_ids = l, !.analyst_ids = m] :
            l, m \in {ListV(<<TextV(<<"B">>), TextV(<<"A">>)>>),
                      TextV(<<"B">>)}}
    \cup {[BenzingaDefaults EXCEPT !.has_required = FALSE],
          [BenzingaDefaults EXCEPT !.has_required = FALSE,
                                   !.action = StrV("upgrades")]}

FMPBags ==
    [symbol : {TextV(s) : s \in SymbolTexts}, with_grade : BOOLEAN,
     has_required : {TRUE}]
    \cup {[symbol |-> TextV(<<"A">>), with_grade |-> FALSE,
           has_required |-> FALSE]}

NoQuery == [t |-> "none"]

\* find_decorator is not running.
NoScan == [pc |-> "idle"]

----------------------------------------------------------------------------
(* The request *)

Init ==
    /\ provider \in {"benzinga", "fmp"}
    /\ params \in IF provider = "benzinga" THEN BenzingaBags ELSE FMPBags
    /\ pc = "start"
    /\ query = NoQuery
    /\ query0 = NoQuery
    /\ urls = <<>>
    /\ http = <<>>
    /\ sent = <<>>
    /\ data = None
    /\ data0 = None
    /\ results = None
    /\ error = "none"
    /\ calls = 0
    /\ fd = NoScan

\* The request ends with exception e.
Fail(e) == pc' = "failed" /\ error' = e

\* The exception transform_query ends with, or "none".
BenzingaTransformQueryError(p) ==
    IF ~BenzingaValid(p) THEN "ValidationError"
    ELSE IF BenzingaQuery(p).action.t = "raise" THEN BenzingaQuery(p).action.v
    ELSE "none"

\* BenzingaPriceTargetFetcher.transform_query
BenzingaTransformQuery ==
    /\ pc = "start" /\ provider = "benzinga"
    /\ UNCHANGED <<calls, fd>>
    /\ IF BenzingaTransformQueryError(params) = "none"
       THEN /\ query' = BenzingaQuery(params)
            /\ query0' = BenzingaQuery(params)
            /\ pc' = "built"
            /\ UNCHANGED error
       ELSE /\ Fail(BenzingaTransformQueryError(params))
            /\ UNCHANGED <<query, query0>>
    /\ UNCHANGED <<provider, params, urls, http, sent, data, data0, results>>

\* FMPPriceTargetFetcher.transform_query
FMPTransformQuery ==
    /\ pc = "start" /\ provider = "fmp"
    /\ UNCHANGED <<calls, fd>>
    /\ IF FMPValid(params)
       THEN /\ query' = FMPQuery(params)
            /\ query0' = FMPQuery(params)
            /\ pc' = "built"
            /\ UNCHANGED error
       ELSE /\ Fail("ValidationError")
            /\ UNCHANGED <<query, query0>>
    /\ UNCHANGED <<provider, params, urls, http, sent, data, data0, results>>

----------------------------------------------------------------------------
(* Upstream *)

IsoDateV(d) == [t |-> "isodate", v |-> d]

\* The instants the upstream stamps records with: midnight and one second
\* past it, on the first and on the last day.
RecordInstants == {d * SecondsPerDay + o : d \in {0, MaxDay}, o \in {0, 1}}

BenzingaBaseRecord ==
    [ticker |-> StrV("A"), date |-> IsoDateV(1), updated |-> IntV(1),
     action_company |-> StrV("Upgrades"), notes |-> StrV("n")]

\* dict | {key: value}
WithKey(d, key, value) ==
    [k \in DOMAIN d \cup {key} |-> IF k = key THEN value ELSE d[k]]

\* The rating records the upstream may send: the base record with one
\* field varied, with and without the duplicated "url_calendar".
BenzingaVariedRecords ==
    {BenzingaBaseRecord}
    \cup {[BenzingaBaseRecord EXCEPT !.updated = u] :
            u \in {IntV(s) : s \in RecordInstants} \cup {StrV("")}}
    \cup {[BenzingaBaseRecord EXCEPT !.notes = StrV("")]}
    \cup {[BenzingaBaseRecord EXCEPT !.action_company = a] :
            a \in {StrV(""), StrV("Initiates Coverage On"), StrV("Buy")}}

BenzingaRawRecords ==
    BenzingaVariedRecords
    \cup {WithKey(BenzingaBaseRecord, "url_calendar", StrV("u")),
          WithKey([BenzingaBaseRecord EXCEPT !.notes = StrV("")],
                  "url_calendar", StrV("u")),
          WithKey([BenzingaBaseRecord EXCEPT !.updated = IntV(SecondsPerDay)],
                  "url_calendar", StrV(""))}

\* What amake_requests hands back for the Benzinga URL: nothing, or one
\* response element, with or without a "ratings" key.
BenzingaBodies ==
    {<<>>}
    \cup {<<[keys |-> {"ratings"}, ratings |-> l]>> :
            l \in SeqsUpTo(BenzingaRawRecords, MaxRatings)}
    \cup {<<[keys |-> {}, ratings |-> <<>>]>>}

\* element.get("ratings")
GetRatings(element) ==
    IF "ratings" \in element.keys THEN ListV(element.ratings) ELSE None

FMPBaseRecord(sym) ==
    [symbol |-> sym, publishedDate |-> IsoV(SecondsPerDay + 3600),
     newsTitle |-> StrV("t"), analystCompany |-> StrV("F")]

\* What the upstream may send for one FMP URL: records of the URL's symbol.
FMPBodies(url) ==
    LET r == FMPBaseRecord(url.qs.symbol) IN
    {<<>>,
     <<r>>,
     <<[r EXCEPT !.newsTitle = StrV("")]>>,
     <<[r EXCEPT !.publishedDate = IsoV(SecondsPerDay)]>>,
     <<[r EXCEPT !.publishedDate = StrV("")]>>,
     <<r, [r EXCEPT !.analystCompany = StrV("")]>>}

Pending == [st |-> "pending"]
Failed == [st |-> "fail"]
Ok(body) == [st |-> "ok", body |-> body]

----------------------------------------------------------------------------
(* aextract_data *)

\* The URL of an endpoint with the query's dump as its query string.
create_url(endpoint, q) == [endpoint |-> endpoint, qs |-> q]

\* BenzingaPriceTargetFetcher.aextract_data up to the await: one URL, one call.
BenzingaExtractSend ==
    /\ pc = "built" /\ provider = "benzinga"
    /\ calls' = calls + 1
    /\ UNCHANGED fd
    /\ urls' = <<create_url("calendar/ratings", query)>>
    /\ http' = <<Pending>>
    /\ sent' = sent \o urls'
    /\ pc' = "waiting"
    /\ UNCHANGED <<provider, params, query, query0, data, data0, results, error>>

RECURSIVE FMPLoopNoAssign(_, _, _, _)
\* The loop without its assignment to query.symbol.
FMPLoopNoAssign(parts, q, us, endpoint) ==
    IF parts = <<>> THEN [query |-> q, urls |-> us]
    ELSE FMPLoopNoAssign(Tail(parts), q, Append(us, create_url(endpoint, q)),
                         endpoint)

RECURSIVE FMPLoop(_, _, _, _)
\* for symbol in parts: query.symbol = symbol; urls.append(create_url(...))
FMPLoop(parts, q, us, endpoint) ==
    IF parts = <<>> THEN [query |-> q, urls |-> us]
    ELSE LET q2 == [q EXCEPT !.symbol = TextV(Head(parts))]
         IN FMPLoop(Tail(parts), q2, Append(us, create_url(endpoint, q2)),
                    endpoint)

FMPEndpoint(q) == IF q.with_grade THEN "upgrades-downgrades" ELSE "price-target"

\* FMPPriceTargetFetcher.aextract_data up to the await: one URL per part of
\* query.symbol, all handed to get_data_urls together.
FMPExtractSend ==
    /\ pc = "built" /\ provider = "fmp"
    /\ calls' = calls + 1
    /\ UNCHANGED fd
    /\ LET r == FMPLoop(Split(query.symbol.v, ","), query, <<>>,
                        FMPEndpoint(query))
       IN /\ query' = r.query
          /\ urls' = r.urls
          /\ http' = [i \in 1 .. Len(r.urls) |-> Pending]
          /\ sent' = sent \o r.urls
    /\ pc' = "waiting"
    /\ UNCHANGED <<provider, params, query0, data, data0, results, error>>

\* The upstream answers one pending call, or the call fails.
HttpRespond(i) ==
    /\ pc = "waiting"
    /\ UNCHANGED <<calls, fd>>
    /\ http[i] = Pending
    /\ \E outcome \in {Failed} \cup
            {Ok(b) : b \in IF provider = "benzinga" THEN BenzingaBodies
                           ELSE FMPBodies(urls[i])} :
         http' = [http EXCEPT ![i] = outcome]
    /\ UNCHANGED <<provider, params, pc, query, query0, urls, sent, data,
                   data0, results, error>>

AnyFailed == \E i \in DOMAIN http : http[i] = Failed
AllOk == \A i \in DOMAIN http : http[i].st = "ok"

\* BenzingaPriceTargetFetcher.aextract_data from the await on.
BenzingaExtractReturn ==
    /\ pc = "waiting" /\ provider = "benzinga"
    /\ UNCHANGED <<calls, fd>>
    /\ AnyFailed \/ AllOk
    /\ IF AnyFailed
       THEN Fail("HTTPError") /\ UNCHANGED data
       ELSE IF http[1].body = <<>>
       THEN Fail("EmptyDataError") /\ UNCHANGED data
       ELSE /\ data' = GetRatings(http[1].body[1])
            /\ pc' = "extracted"
            /\ UNCHANGED error
    /\ UNCHANGED <<provider, params, query, query0, urls, http, sent, data0,
                   results>>

RECURSIVE Concat(_)
Concat(ss) == IF ss = <<>> THEN <<>> ELSE Head(ss) \o Concat(Tail(ss))

\* get_data_urls: the bodies of the calls, concatenated in the order of urls.
get_data_urls(outcomes) ==
    ListV(Concat([i \in DOMAIN outcomes |-> outcomes[i].body]))

\* aextract_data that skips a failed call and returns the bodies it has.
FMPExtractReturnPartial ==
    /\ pc = "waiting" /\ provider = "fmp"
    /\ UNCHANGED <<calls, fd>>
    /\ \A i \in DOMAIN http : http[i] # Pending
    /\ data' = ListV(Concat([i \in DOMAIN http |->
                        IF http[i] = Failed THEN <<>> ELSE http[i].body]))
    /\ pc' = "extracted"
    /\ UNCHANGED <<provider, params, query, query0, urls, http, sent, data0,
                   results, error>>

\* FMPPriceTargetFetcher.aextract_data from the await on.
FMPExtractReturn ==
    /\ pc = "waiting" /\ provider = "fmp"
    /\ UNCHANGED <<calls, fd>>
    /\ AnyFailed \/ AllOk
    /\ IF AnyFailed
       THEN Fail("HTTPError") /\ UNCHANGED data
       ELSE /\ data' = get_data_urls(http)
            /\ pc' = "extracted"
            /\ UNCHANGED error
    /\ UNCHANGED <<provider, params, query, query0, urls, http, sent, data0,
                   results>>

----------------------------------------------------------------------------
(* Benzinga data schema *)

\* The canonical field a raw key fills: __alias_dict__ and the Field aliases.
BenzingaCanon(k) ==
    CASE k = "ticker" -> "symbol"
      [] k = "date" -> "published_date"
      [] k = "updated" -> "last_updated"
      [] k = "action_company" -> "action"
      [] OTHER -> k

BenzingaFields == {"symbol", "published_date", "last_updated", "action", "notes"}

\* replace_empty_strings, mode="before"
replace_empty_strings(values) ==
    [k \in DOMAIN values |-> IF values[k] = StrV("") THEN None ELSE values[k]]

\* parse_date, mode="before": strptime(v, "%Y-%m-%d").date()
parse_date(v) == IF Truthy(v) THEN DateV(v.v) ELSE None

\* validate_date, mode="before"
validate_date(v) ==
    IF Truthy(v)
    THEN LET dt == FromTimestampUTC(v.v)
         IN IF TimeOf(dt) = 0 THEN DateOf(dt) ELSE dt
    ELSE v

\* last_updated: Optional[datetime]: the field's type takes what the
\* validator returned: a datetime as it is, a date as that day's 00:00:00,
\* an int as the instant that many seconds after the epoch.
LastUpdatedType(v) ==
    CASE v.t = "date" -> DateTimeV(v.v * SecondsPerDay)
      [] v.t = "int" -> DateTimeV(v.v)
      [] OTHER -> v

\* action: Union[None, Literal[...]] of the data record
DataActionAccepts(v) == v.t = "none" \/ (v.t = "str" /\ v.v \in DataActionLiteral)

\* BenzingaPriceTargetData.model_validate(item)
BenzingaModelValidate(item) ==
    LET values == replace_empty_strings(item)
        KeyOf(f) == CHOOSE k \in DOMAIN values : BenzingaCanon(k) = f
        Given(f) == \E k \in DOMAIN values : BenzingaCanon(k) = f
        Field(f) ==
            IF ~Given(f) THEN None
            ELSE CASE f = "published_date" -> parse_date(values[KeyOf(f)])
                   [] f = "last_updated" ->
                        LastUpdatedType(validate_date(values[KeyOf(f)]))
                   [] OTHER -> values[KeyOf(f)]
        names == BenzingaFields \cup {BenzingaCanon(k) : k \in DOMAIN values}
    IN [ok |-> DataActionAccepts(Field("action")),
        rec |-> [f \in names |-> Field(f)]]

\* item.pop(key, None)
Pop(item, key) == [k \in DOMAIN item \ {key} |-> item[k]]

\* The body of the loop up to model_validate: the item as the pop leaves it.
BenzingaLoopItem(item) == Pop(item, "url_calendar")

RECURSIVE BenzingaTransformLoopSkipInvalid(_, _, _)
\* The loop with a record that fails validation skipped instead of raised.
BenzingaTransformLoopSkipInvalid(items, i, res) ==
    IF i > Len(items)
    THEN [data |-> items, results |-> res, error |-> "none"]
    ELSE LET item == BenzingaLoopItem(items[i])
             items2 == [items EXCEPT ![i] = item]
             v == BenzingaModelValidate(item)
         IN BenzingaTransformLoopSkipInvalid(
                items2, i + 1, IF v.ok THEN Append(res, v.rec) ELSE res)

RECURSIVE BenzingaTransformLoop(_, _, _)
\* for item in data: item.pop("url_calendar", None); results.append(...)
BenzingaTransformLoop(items, i, res) ==
    IF i > Len(items)
    THEN [data |-> items, results |-> res, error |-> "none"]
    ELSE LET item == BenzingaLoopItem(items[i])
             items2 == [items EXCEPT ![i] = item]
             v == BenzingaModelValidate(item)
         IN IF v.ok
            THEN BenzingaTransformLoop(items2, i + 1, Append(res, v.rec))
            ELSE [data |-> items2, results |-> res, error |-> "ValidationError"]

\* BenzingaPriceTargetFetcher.transform_data
BenzingaTransformData ==
    /\ pc = "extracted" /\ provider = "benzinga"
    /\ UNCHANGED <<calls, fd>>
    /\ data0' = data
    /\ IF data.t # "list"
       THEN Fail("TypeError") /\ UNCHANGED <<data, results>>
       ELSE LET r == BenzingaTransformLoop(data.v, 1, <<>>)
            IN /\ data' = ListV(r.data)
               /\ IF r.error = "none"
                  THEN /\ results' = ListV(r.results)
                       /\ pc' = "done"
                       /\ UNCHANGED error
                  ELSE Fail(r.error) /\ UNCHANGED results
    /\ UNCHANGED <<provider, params, query, query0, urls, http, sent>>

----------------------------------------------------------------------------
(* FMP data schema *)

\* The canonical field a key of new_item fills.
FMPCanon(k) ==
    CASE k = "newsTitle" -> "news_title"
      [] k = "publishedDate" -> "published_date"
      [] OTHER -> k

FMPFields == {"symbol", "published_date", "news_title", "analyst_firm"}

\* validate_date, mode="before": strptime(v, "%Y-%m-%dT%H:%M:%S.%fZ") of the
\* text without its newlines; any other text is a ValueError.
FMP_validate_date(v) ==
    IF v.t = "iso" THEN DateTimeV(v.v) ELSE Raise("ValueError")

\* FMPPriceTargetData.model_validate(new_item)
FMPModelValidate(new_item) ==
    LET KeyOf(f) == CHOOSE k \in DOMAIN new_item : FMPCanon(k) = f
        Given(f) == \E k \in DOMAIN new_item : FMPCanon(k) = f
        Field(f) ==
            IF ~Given(f) THEN None
            ELSE IF f = "published_date"
                 THEN FMP_validate_date(new_item[KeyOf(f)])
                 ELSE new_item[KeyOf(f)]
        names == FMPFields \cup {FMPCanon(k) : k \in DOMAIN new_item}
    IN [ok |-> Field("published_date").t # "raise",
        rec |-> [f \in names |-> Field(f)]]

\* {k if k != "analystCompany" else "analyst_firm": v for k, v in item.items()}
FMPNewItem(item) ==
    LET NewKey(k) == IF k # "analystCompany" THEN k ELSE "analyst_firm"
        OldKey(n) == CHOOSE k \in DOMAIN item : NewKey(k) = n
    IN [n \in {NewKey(k) : k \in DOMAIN item} |-> item[OldKey(n)]]

RECURSIVE FMPTransformLoop(_, _, _)
\* for item in data: new_item = {...}; results.append(model_validate(new_item))
FMPTransformLoop(items, i, res) ==
    IF i > Len(items)
    THEN [data |-> items, results |-> res, error |-> "none"]
    ELSE LET v == FMPModelValidate(FMPNewItem(items[i]))
         IN IF v.ok
            THEN FMPTransformLoop(items, i + 1, Append(res, v.rec))
            ELSE [data |-> items, results |-> res, error |-> "ValidationError"]

\* FMPPriceTargetFetcher.transform_data
FMPTransformData ==
    /\ pc = "extracted" /\ provider = "fmp"
    /\ UNCHANGED <<calls, fd>>
    /\ data0' = data
    /\ LET r == FMPTransformLoop(data.v, 1, <<>>)
       IN /\ data' = ListV(r.data)
          /\ IF r.error = "none"
             THEN /\ results' = ListV(r.results)
                  /\ pc' = "done"
                  /\ UNCHANGED error
             ELSE Fail(r.error) /\ UNCHANGED results
    /\ UNCHANGED <<provider, params, query, query0, urls, http, sent>>

----------------------------------------------------------------------------
(* Specification *)

Next ==
    \/ BenzingaTransformQuery
    \/ FMPTransformQuery
    \/ BenzingaExtractSend
    \/ FMPExtractSend
    \/ \E i \in DOMAIN http : HttpRespond(i)
    \/ BenzingaExtractReturn
    \/ FMPExtractReturn
    \/ BenzingaTransformData
    \/ FMPTransformData

Spec == Init /\ [][Next]_vars

\* FMPPriceTargetFetcher.aextract_data called once more, with the query object
\* of the call that has just returned.
FMPExtractAgain ==
    /\ pc = "extracted" /\ provider = "fmp"
    /\ calls < MaxCalls
    /\ calls' = calls + 1
    /\ LET r == FMPLoop(Split(query.symbol.v, ","), query, <<>>,
                        FMPEndpoint(query))
       IN /\ query' = r.query
          /\ urls' = r.urls
          /\ http' = [i \in 1 .. Len(r.urls) |-> Pending]
          /\ sent' = sent \o r.urls
    /\ pc' = "waiting"
    /\ UNCHANGED <<provider, params, query0, data, data0, results, error, fd>>

InitRepeat == Init /\ provider = "fmp"

NextRepeat ==
    \/ FMPTransformQuery
    \/ FMPExtractSend
    \/ \E i \in DOMAIN http : HttpRespond(i)
    \/ FMPExtractReturn
    \/ FMPExtractAgain
    \/ FMPTransformData

\* An FMP request whose caller may call aextract_data again.
SpecRepeat == InitRepeat /\ [][NextRepeat]_vars

----------------------------------------------------------------------------
(* find_decorator                                                          *)
(*                                                                         *)
(* A line of a router file is a sequence of tokens; "@router.command" is   *)
(* the two tokens "@", "router.command", a function name is one token per  *)
(* letter, " " is whitespace.  A substring of a line is a run of tokens.   *)

\* prefix is how line starts: str.startswith
StartsWith(line, prefix) ==
    Len(line) >= Len(prefix) /\ SubSeq(line, 1, Len(prefix)) = prefix

\* part occurs in line: part in line
Contains(line, part) ==
    \E k \in 1 .. Len(line) - Len(part) + 1 :
        SubSeq(line, k, k + Len(part) - 1) = part

\* The tokens str.strip() removes.
Whitespace == {" ", "\n"}

RECURSIVE StripLeft(_)
StripLeft(line) ==
    IF line # <<>> /\ Head(line) \in Whitespace
    THEN StripLeft(Tail(line)) ELSE line

RECURSIVE StripRight(_)
StripRight(line) ==
    IF line # <<>> /\ line[Len(line)] \in Whitespace
    THEN StripRight(SubSeq(line, 1, Len(line) - 1)) ELSE line

\* line.strip()
Strip(line) == StripRight(StripLeft(line))

FunctionNames == {<<"f">>, <<"g">>, <<"f", "g">>}

\* The model a function's command names: a word of its own, in which no
\* function name occurs.
ModelOf(name) ==
    CASE name = <<"f">> -> "F"
      [] name = <<"g">> -> "G"
      [] OTHER -> "FG"

DefLine(name) == <<"async", "def">> \o name \o <<"(", "\n">>
BodyLine == <<" ", "return", "\n">>

\* The ways a router file declares a function: the command decorator on one
\* line or on several, no decorator, another decorator alone or under the
\* command decorator, and a decorator argument line that holds "def", with
\* and without the function's name.
FunctionShapes ==
    {"single", "multi", "plain", "other", "stacked", "defarg", "defname"}

\* The lines of the @router.command decorator of a function, as written.
DecoratorOf(shape, name) ==
    CASE shape \in {"single", "stacked"} ->
            << <<"@", "router.command", "(", ModelOf(name), ")", "\n">> >>
      [] shape = "multi" ->
            << <<"@", "router.command", "(", "\n">>,
               <<" ", ModelOf(name), ",", "\n">>,
               <<")", "\n">> >>
      [] shape = "defarg" ->
            << <<"@", "router.command", "(", "\n">>,
               <<" ", ModelOf(name), ",", "def", "ault", "\n">>,
               <<")", "\n">> >>
      [] shape = "defname" ->
            << <<"@", "router.command", "(", "\n">>,
               <<" ", ModelOf(name), ",", "def", "ault", "=">> \o name
                    \o <<"\n">>,
               <<")", "\n">> >>
      [] OTHER -> <<>>

\* The lines of one function of a router file.
FunctionLines(fn) ==
    DecoratorOf(fn.shape, fn.name)
    \o (IF fn.shape \in {"other", "stacked"}
        THEN << <<"@", "deprecated", "\n">> >> ELSE <<>>)
    \o << DefLine(fn.name), BodyLine >>

\* The router files: up to MaxFuncs functions of different names.
RouterFiles ==
    {fns \in SeqsUpTo([shape : FunctionShapes, name : FunctionNames], MaxFuncs) :
        \A i, j \in 1 .. Len(fns) : i # j => fns[i].name # fns[j].name}

\* file.readlines()
ReadLines(fns) == Concat([i \in 1 .. Len(fns) |-> FunctionLines(fns[i])])

\* find_decorator(file_path, function_name) up to its loop.
InitDecorator ==
    /\ provider = "benzinga"
    /\ params = BenzingaDefaults
    /\ pc = "idle"
    /\ query = NoQuery /\ query0 = NoQuery
    /\ urls = <<>> /\ http = <<>> /\ sent = <<>>
    /\ data = None /\ data0 = None /\ results = None
    /\ error = "none"
    /\ calls = 0
    /\ \E fns \in RouterFiles, name \in FunctionNames :
         fd = [pc |-> "loop", file |-> fns, function_name |-> name,
               lines |-> ReadLines(fns), i |-> 1,
               decorator_lines |-> <<>>, capturing_decorator |-> FALSE,
               decorator |-> <<>>]

\* One turn of `for line in lines`.
FindDecoratorLine ==
    /\ fd.pc = "loop"
    /\ fd.i <= Len(fd.lines)
    /\ LET stripped_line == Strip(fd.lines[fd.i])
           next == [fd EXCEPT !.i = fd.i + 1]
           is_def == /\ Contains(stripped_line, <<"def">>)
                     /\ Contains(stripped_line, fd.function_name)
       IN fd' =
           IF StartsWith(stripped_line, <<"@", "router.command">>)
           THEN [next EXCEPT !.capturing_decorator = TRUE,
                             !.decorator_lines = Append(@, stripped_line)]
           ELSE IF fd.capturing_decorator
           THEN IF StartsWith(stripped_line, <<"@">>) \/ is_def
                THEN IF is_def
                     THEN [fd EXCEPT !.capturing_decorator = FALSE,
                                     !.pc = "join"]
                     ELSE [next EXCEPT !.capturing_decorator = FALSE,
                                       !.decorator_lines = <<>>]
                ELSE [next EXCEPT !.decorator_lines = Append(@, stripped_line)]
           ELSE next
    /\ UNCHANGED <<provider, params, pc, query, query0, urls, http, sent,
                   data, data0, results, error, calls>>

\* After the loop: decorator = " ".join(decorator_lines); return decorator
FindDecoratorJoin ==
    /\ \/ fd.pc = "join"
       \/ fd.pc = "loop" /\ fd.i > Len(fd.lines)
    /\ fd' = [fd EXCEPT !.decorator = Join(fd.decorator_lines, " "),
                        !.pc = "done"]
    /\ UNCHANGED <<provider, params, pc, query, query0, urls, http, sent,
                   data, data0, results, error, calls>>

NextDecorator == FindDecoratorLine \/ FindDecoratorJoin

\* One call of find_decorator on a router file.
SpecDecorator == InitDecorator /\ [][NextDecorator]_vars

----------------------------------------------------------------------------
(* Claims *)

\* transform_query has built the query object.
Built == query0 # NoQuery

\* aextract_data has run up to its await.
Sent == Built /\ pc # "built"

\* The Benzinga response carries zero ratings.
ZeroRatings(body) ==
    body = <<>> \/ ("ratings" \in body[1].keys /\ body[1].ratings = <<>>)

\* C1: Benzinga aextract_data never returns an empty list: once the upstream
\* has answered with zero ratings (no response element, or a first element
\* whose "ratings" list is empty), the call has ended in EmptyDataError.
C1_ZeroRatingsRaiseEmptyData ==
    (/\ provider = "benzinga"
     /\ Sent /\ pc # "waiting"
     /\ AllOk
     /\ ZeroRatings(http[1].body))
    => (pc = "failed" /\ error = "EmptyDataError" /\ data # ListV(<<>>))

\* The parts of the symbol text the query was built with.
InputSymbols == Split(query0.symbol.v, ",")

\* C2: FMP aextract_data builds one URL per comma-separated symbol of the
\* query, the i-th URL for the i-th symbol, issues them in that order, and
\* returns the records of the i-th symbol before those of the (i+1)-th.
C2_OneUrlPerSymbolInOrder ==
    (provider = "fmp" /\ Sent)
    => /\ Len(urls) = Len(InputSymbols)
       /\ \A i \in 1 .. Len(urls) :
            /\ urls[i].qs.symbol = TextV(InputSymbols[i])
            /\ urls[i].endpoint = FMPEndpoint(query0)
       /\ sent = urls
       /\ pc = "extracted" =>
            [j \in 1 .. Len(data.v) |-> data.v[j].symbol]
              = Concat([i \in 1 .. Len(urls) |->
                          [k \in 1 .. Len(http[i].body) |->
                              TextV(InputSymbols[i])]])

\* C2 witness: two different symbols, each answered with records.
C2_Witness ==
    /\ provider = "fmp" /\ pc = "extracted"
    /\ query0.symbol = TextV(<<"B", ",", "A">>)
    /\ Len(http[1].body) = 2 /\ Len(http[2].body) = 1

\* C3: the query object keeps, through every later step, the fields
\* transform_query gave it.
C3_QueryReadOnly == Built => query = query0

\* transform_data has been called.
Transformed ==
    \/ pc = "done"
    \/ pc = "failed" /\ Built /\ error \in {"ValidationError", "TypeError"}

\* C4: transform_data leaves the raw records as it received them and no
\* output record carries "url_calendar".
C4_TransformDataPure ==
    Transformed
    => /\ data = data0
       /\ pc = "done" =>
            \A i \in 1 .. Len(results.v) :
                "url_calendar" \notin DOMAIN results.v[i]

\* C5: a Benzinga query constructed with one of the 11 action codes holds
\* that code's wire string, which no other code maps to and which the data
\* record's action field accepts.
C5_ActionRoundTrip ==
    (/\ provider = "benzinga"
     /\ pc # "start"
     /\ params.has_required
     /\ params.action.t = "str"
     /\ params.action.v \in QueryActionLiteral)
    => /\ Built
       /\ query0.action.t = "str"
       /\ query0.action.v = COVERAGE_DICT[params.action.v]
       /\ {c \in DOMAIN COVERAGE_DICT : COVERAGE_DICT[c] = query0.action.v}
            = {params.action.v}
       /\ DataActionAccepts(query0.action)

\* C5 witness: a query built with a code whose wire string is not the code
\* capitalized.
C5_Witness ==
    /\ provider = "benzinga" /\ pc = "built"
    /\ params.action = StrV("initiates")
    /\ query.action = StrV("Initiates Coverage On")

\* The canonical field of the output record that raw key k fills.
CanonOf(k) ==
    IF provider = "benzinga" THEN BenzingaCanon(k)
    ELSE FMPCanon(IF k = "analystCompany" THEN "analyst_firm" ELSE k)

\* C6: every field that is the empty string in a raw record is null in the
\* normalized record built from it, for either provider.
C6_EmptyStringsBecomeNull ==
    pc = "done"
    => \A i \in 1 .. Len(results.v) :
         \A k \in DOMAIN data0.v[i] :
            (data0.v[i][k] = StrV("") /\ CanonOf(k) \in DOMAIN results.v[i])
            => results.v[i][CanonOf(k)] = None

\* The raw timestamp of record i and the normalized field built from it.
RawStamp(i) ==
    IF provider = "benzinga"
    THEN (IF data0.v[i].updated.t = "int"
          THEN DateTimeV(data0.v[i].updated.v) ELSE None)
    ELSE DateTimeV(data0.v[i].publishedDate.v)

OutStamp(i) ==
    IF provider = "benzinga" THEN results.v[i].last_updated
    ELSE results.v[i].published_date

\* C7: a raw timestamp at midnight UTC becomes a bare date, no normalized
\* record holds a datetime at 00:00:00, and any other timestamp is kept as
\* the full datetime.
C7_MidnightIsBareDate ==
    pc = "done"
    => \A i \in 1 .. Len(results.v) :
         /\ OutStamp(i).t = "datetime" => TimeOf(OutStamp(i)) # 0
         /\ RawStamp(i) # None =>
              OutStamp(i) = IF TimeOf(RawStamp(i)) = 0
                            THEN DateOf(RawStamp(i)) ELSE RawStamp(i)

\* The UTC epoch seconds of a supplied date, datetime or epoch.
EpochOf(v) == IF v.t = "date" THEN v.v * SecondsPerDay ELSE v.v

\* C8: a Benzinga query given `updated` as a date, a datetime or an epoch
\* holds the integer UTC epoch seconds of that instant, never null.
C8_UpdatedNormalizedToEpoch ==
    (/\ provider = "benzinga"
     /\ pc # "start"
     /\ params.has_required
     /\ params.updated # None)
    => /\ Built
       /\ query0.updated = IntV(EpochOf(params.updated))

\* The bag names an action outside the 11 codes, or lacks a required field.
BadBag ==
    \/ ~params.has_required
    \/ /\ provider = "benzinga"
       /\ params.action.t = "str"
       /\ params.action.v \notin
            {"downgrades", "maintains", "reinstates", "reiterates",
             "upgrades", "assumes", "initiates", "terminates", "removes",
             "suspends", "firm_dissolved"}

\* C9: with such a bag transform_query ends in a validation error: no query
\* object exists, no HTTP call is issued and transform_data is not reached.
C9_BadBagFailsAtConstruction ==
    BadBag
    => /\ pc \in {"start", "failed"}
       /\ pc = "failed" => error = "ValidationError"
       /\ query = NoQuery /\ query0 = NoQuery
       /\ urls = <<>> /\ sent = <<>>
       /\ data = None /\ data0 = None /\ results = None

\* C9 witness: an unknown action has ended the request at construction.
C9_Witness ==
    /\ provider = "benzinga" /\ pc = "failed"
    /\ params.action = StrV("buy") /\ params.has_required

\* C10: every entry of the URL list is requested at most once, and a failed
\* call ends the request with that failure: nothing is returned, nothing is
\* transformed.
C10_NoRetryNoPartial ==
    /\ sent \in {<<>>, urls}
    /\ (AnyFailed /\ pc # "waiting")
       => /\ pc = "failed" /\ error = "HTTPError"
          /\ data = None /\ results = None

\* C10 witness: of two calls one was answered with records and the other
\* failed, and the request has ended.
C10_Witness ==
    /\ provider = "fmp" /\ pc = "failed"
    /\ Len(http) = 2
    /\ http[1].st = "ok" /\ http[1].body # <<>>
    /\ http[2] = Failed

\* Raw record i, as transform_data received it, cannot validate: its action
\* is outside the data record's Literal, or its published date is no
\* timestamp text.
RawInvalid(i) ==
    IF provider = "benzinga"
    THEN /\ data0.v[i].action_company.t = "str"
         /\ data0.v[i].action_company.v \notin DataActionLiteral \cup {""}
    ELSE data0.v[i].publishedDate.t # "iso"

\* The normalized record of one raw record.
Normalized(raw) ==
    IF provider = "benzinga"
    THEN BenzingaModelValidate(Pop(raw, "url_calendar")).rec
    ELSE FMPModelValidate(FMPNewItem(raw)).rec

\* C11: transform_data given k raw records that all validate returns k
\* records, the i-th built from the i-th raw record; given a record that
\* fails validation it ends in the validation error and returns nothing.
C11_OneToOneOrFail ==
    (Transformed /\ data0.t = "list")
    => IF \E i \in 1 .. Len(data0.v) : RawInvalid(i)
       THEN pc = "failed" /\ error = "ValidationError" /\ results = None
       ELSE /\ pc = "done"
            /\ Len(results.v) = Len(data0.v)
            /\ \A i \in 1 .. Len(data0.v) :
                 results.v[i] = Normalized(data0.v[i])

\* C11 witness: two different raw records, both normalized.
C11_Witness ==
    /\ provider = "benzinga" /\ pc = "done"
    /\ Len(results.v) = 2
    /\ data0.v[1].notes # data0.v[2].notes
    /\ results.v[1] # results.v[2]

\* C15: whatever Benzinga aextract_data returns is a list of raw records,
\* never null, so transform_data never fails for want of a payload.
C15_ExtractReturnsList ==
    provider = "benzinga"
    => /\ pc = "extracted" => data.t = "list"
       /\ error # "TypeError"

\* C14: a second call of FMP aextract_data with the same query object issues
\* the URLs of the first call again, in the same order.
C14_SecondCallSameUrls ==
    (provider = "fmp" /\ calls = 2) => sent = urls \o urls

\* What the list-to-string validator is to make of a supplied value.
ListJoined(v, out) ==
    CASE v.t = "text" -> out = v /\ convert_list(out) = out
      [] v.t = "list" /\ v.v # <<>> ->
            /\ out.t = "text"
            /\ Split(out.v, ",") = [i \in 1 .. Len(v.v) |-> v.v[i].v]
      [] OTHER -> out = None

\* C13: in a constructed Benzinga query each of fields, firm_ids and
\* analyst_ids holds: for a non-empty list, its elements joined by commas in
\* list order; for a str, that str, which the validator maps to itself; for
\* an empty list or no value, null.
C13_ListToString ==
    (provider = "benzinga" /\ Built)
    => /\ ListJoined(params.fields, query0.fields)
       /\ ListJoined(params.firm_ids, query0.firm_ids)
       /\ ListJoined(params.analyst_ids, query0.analyst_ids)

\* C13 witness: a two-element list was joined.
C13_Witness ==
    /\ provider = "benzinga" /\ pc = "built"
    /\ params.fields = ListV(<<TextV(<<"B">>), TextV(<<"A">>)>>)
    /\ query.fields = TextV(<<"B", ",", "A">>)

\* The text of the @router.command decorator attached to the function named
\* name: its lines, stripped, joined by single spaces; empty when the file
\* has no such function or the function has no such decorator.
DecoratorTextOf(fns, name) ==
    IF \E i \in 1 .. Len(fns) : fns[i].name = name
    THEN LET fn == fns[CHOOSE i \in 1 .. Len(fns) : fns[i].name = name]
             written == DecoratorOf(fn.shape, fn.name)
         IN Join([k \in 1 .. Len(written) |-> Strip(written[k])], " ")
    ELSE <<>>

\* C12: find_decorator returns exactly the text of the @router.command
\* decorator attached to the function named function_name, and the empty
\* string when there is none.
C12_FindsOwnDecorator ==
    fd.pc = "done" => fd.decorator = DecoratorTextOf(fd.file, fd.function_name)

====
